---- MODULE Spec2Model ----
(***************************************************************************)
(* Model of src/avl_tree.cpp: class Set<ValueType>, an AVL tree whose      *)
(* nodes each hold an iterator into a std::list (items) that mirrors the   *)
(* sorted order.  ValueType is instantiated with small integers compared   *)
(* by <.  Tree nodes live in a heap keyed by address; list entries live in *)
(* a second store keyed by entry id (a std::list iterator is an entry id,  *)
(* stable under insertions and removals elsewhere in the list).            *)
(***************************************************************************)
EXTENDS Integers, Sequences, FiniteSets, TLC

\* Bound: elements are drawn from 1..MaxVal.
MaxVal == 5

Values == 1 .. MaxVal

\* Addresses handed out by new / by the list allocator.  Two Sets over Values
\* never hold more than 2 * Cardinality(Values) nodes together, so the pool
\* never runs dry.
Addrs == 1 .. 2 * Cardinality(Values)

\* nullptr, and the list's end() iterator.
NULL == 0
END == 0

\* root, sz, items: the Set A.  setB: a second Set B (live once constructed), in
\* the same memory heap, cells.  last, abs, asc, cp: history of the calls made.
VARIABLES root, sz, items, heap, cells, last, abs, asc, setB, cp

vars == <<root, sz, items, heap, cells, last, abs, asc, setB, cp>>

\* The Set object together with the memory it owns, as one value.  The last
\* three fields are not program state: they log, for the call in progress, the
\* calls of balance, the delete expressions and the list entries erased.
Call(r, z, i, h, c) ==
    [root |-> r, sz |-> z, items |-> i, heap |-> h, cells |-> c,
     bal |-> <<>>, freed |-> <<>>, unlinked |-> <<>>]

This == Call(root, sz, items, heap, cells)

\* A default-constructed temporary Set.
Temp == Call(NULL, 0, <<>>, heap, cells)

\* The Set B, and B before its construction.
That == Call(setB.root, setB.sz, setB.items, heap, cells)

NoSet == [live |-> FALSE, root |-> NULL, sz |-> 0, items |-> <<>>]

Max(a, b) == IF a < b THEN b ELSE a

\* Lowest free address of a store (the allocator's choice).
Fresh(store) == CHOOSE a \in Addrs : a \notin DOMAIN store /\ (1 .. a - 1) \subseteq DOMAIN store

\* Store without the entry at a (delete / list node deallocation).
Drop(store, a) == [x \in (DOMAIN store) \ {a} |-> store[x]]

\* Index of entry id it in the sequence of entry ids.
PosOf(seq, it) == CHOOSE i \in 1 .. Len(seq) : seq[i] = it

InsertAt(seq, i, x) == SubSeq(seq, 1, i - 1) \o <<x>> \o SubSeq(seq, i, Len(seq))

RemoveAt(seq, i) == SubSeq(seq, 1, i - 1) \o SubSeq(seq, i + 1, Len(seq))

\* Node(v, it): val(v), h(1), left(nullptr), right(nullptr), iter(it)
Node(v, it) == [val |-> v, h |-> 1, left |-> NULL, right |-> NULL, iter |-> it]

\* items.cbegin() / items.cend()
begin(st) == IF Len(st.items) = 0 THEN END ELSE st.items[1]

end(st) == END

size(st) == st.sz

empty(st) == st.sz = 0

\* items.push_back(elem); it = --items.cend()
list_push_back(st, elem) ==
    LET c == Fresh(st.cells)
    IN [st |-> [st EXCEPT !.cells = st.cells @@ (c :> elem), !.items = Append(st.items, c)],
        ret |-> c]

\* Mutant of list_insert: the new entry goes after next instead of before it.
list_insert_after(st, next, elem) ==
    LET c == Fresh(st.cells)
    IN [st |-> [st EXCEPT !.cells = st.cells @@ (c :> elem),
                          !.items = InsertAt(st.items, PosOf(st.items, next) + 1, c)],
        ret |-> c]

\* it = items.insert(next, elem)
list_insert(st, next, elem) ==
    LET c == Fresh(st.cells)
    IN [st |-> [st EXCEPT !.cells = st.cells @@ (c :> elem),
                          !.items = InsertAt(st.items, PosOf(st.items, next), c)],
        ret |-> c]

\* items.erase(it)
list_erase(st, it) ==
    [st EXCEPT !.cells = Drop(st.cells, it), !.items = RemoveAt(st.items, PosOf(st.items, it)),
               !.unlinked = Append(@, [live |-> it \in DOMAIN st.cells,
                                        val |-> IF it \in DOMAIN st.cells THEN st.cells[it] ELSE 0])]

\* delete node
delete_node(st, node) ==
    [st EXCEPT !.heap = Drop(st.heap, node),
               !.freed = Append(@, [live |-> node \in DOMAIN st.heap,
                                     val |-> IF node \in DOMAIN st.heap THEN st.heap[node].val ELSE 0])]

height(st, node) == IF node # NULL THEN st.heap[node].h ELSE 0

diff(st, node) ==
    IF node # NULL THEN height(st, st.heap[node].right) - height(st, st.heap[node].left) ELSE 0

relax(st, node) ==
    [st EXCEPT !.heap[node].h = 1 + Max(height(st, st.heap[node].left), height(st, st.heap[node].right))]

\* Mutant of rotate_left: node takes over center's right child instead of its
\* left child.
rotate_left_wrongchild(st, node) ==
    LET center == st.heap[node].right
        s1 == [st EXCEPT !.heap[node].right = st.heap[center].right]
        s2 == [s1 EXCEPT !.heap[center].left = node]
        s3 == relax(s2, node)
        s4 == relax(s3, center)
    IN [st |-> s4, ret |-> center]

rotate_left(st, node) ==
    LET center == st.heap[node].right
        s1 == [st EXCEPT !.heap[node].right = st.heap[center].left]
        s2 == [s1 EXCEPT !.heap[center].left = node]
        s3 == relax(s2, node)
        s4 == relax(s3, center)
    IN [st |-> s4, ret |-> center]

\* Mutant of rotate_right: the heights are recomputed center first, node second.
rotate_right_relaxorder(st, node) ==
    LET center == st.heap[node].left
        s1 == [st EXCEPT !.heap[node].left = st.heap[center].right]
        s2 == [s1 EXCEPT !.heap[center].right = node]
        s3 == relax(s2, center)
        s4 == relax(s3, node)
    IN [st |-> s4, ret |-> center]

rotate_right(st, node) ==
    LET center == st.heap[node].left
        s1 == [st EXCEPT !.heap[node].left = st.heap[center].right]
        s2 == [s1 EXCEPT !.heap[center].right = node]
        s3 == relax(s2, node)
        s4 == relax(s3, center)
    IN [st |-> s4, ret |-> center]

\* Mutant of balance: the height is recomputed but no rotation is made.
balance_norotate(st, node) == [st |-> relax(st, node), ret |-> node]

\* True height of the subtree at node in st when that subtree is AVL-balanced
\* and every stored height in it is true; -1 otherwise.
RECURSIVE AVLHeight(_, _)
AVLHeight(st, node) ==
    IF node = NULL THEN 0
    ELSE LET l == AVLHeight(st, st.heap[node].left)
             r == AVLHeight(st, st.heap[node].right)
         IN IF l < 0 \/ r < 0 \/ r - l \notin -1 .. 1 \/ st.heap[node].h # 1 + Max(l, r)
            THEN -1
            ELSE 1 + Max(l, r)

AVLIn(st, node) == AVLHeight(st, node) >= 0

\* Log entry of one call balance(node): the state st it was entered in and
\* the state and subtree root r it returned.
BalanceCall(st, node, r) == [st |-> st, node |-> node, out |-> r.st, ret |-> r.ret]

\* Of a logged call c of balance:
\*   both children of the node were AVL-balanced with true stored heights;
BalancePre(c) ==
    /\ AVLIn(c.st, c.st.heap[c.node].left)
    /\ AVLIn(c.st, c.st.heap[c.node].right)

\*   the balance factor diff(node) it computed after relax(node);
BalanceFactor(c) == diff(relax(c.st, c.node), c.node)

\*   the subtree it returned is AVL-balanced with true stored heights;
BalancePost(c) == AVLIn(c.out, c.ret)

\*   it made a rotation.
Rotated(c) == c.ret # c.node

balance(st, node) ==
    LET s1 == relax(st, node)
        node_balance == diff(s1, node)
        r == IF node_balance = 2
             THEN LET s2 == IF diff(s1, s1.heap[node].right) < 0
                            THEN LET c == rotate_right(s1, s1.heap[node].right)
                                 IN [c.st EXCEPT !.heap[node].right = c.ret]
                            ELSE s1
                  IN rotate_left(s2, node)
             ELSE IF node_balance = -2
             THEN LET s2 == IF diff(s1, s1.heap[node].left) > 0
                            THEN LET c == rotate_left(s1, s1.heap[node].left)
                                 IN [c.st EXCEPT !.heap[node].left = c.ret]
                            ELSE s1
                  IN rotate_right(s2, node)
             ELSE [st |-> s1, ret |-> node]
    IN [st |-> [r.st EXCEPT !.bal = Append(@, BalanceCall(st, node, r))], ret |-> r.ret]

RECURSIVE search(_, _, _)

\* Mutant of search: the descent to the right is missing, any element that is
\* not less than the node's is taken as equal to it.
search_noright(st, node, elem) ==
    IF node = NULL THEN end(st)
    ELSE IF elem < st.heap[node].val THEN search(st, st.heap[node].left, elem)
    ELSE st.heap[node].iter

search(st, node, elem) ==
    IF node = NULL THEN end(st)
    ELSE IF elem < st.heap[node].val THEN search(st, st.heap[node].left, elem)
    ELSE IF st.heap[node].val < elem THEN search(st, st.heap[node].right, elem)
    ELSE st.heap[node].iter

RECURSIVE lb(_, _, _)

\* Mutant of lb: the node passed on the way left is not remembered as the
\* candidate answer.
lb_nocandidate(st, node, elem) ==
    IF node = NULL THEN end(st)
    ELSE IF elem < st.heap[node].val THEN lb(st, st.heap[node].left, elem)
    ELSE IF st.heap[node].val < elem THEN lb(st, st.heap[node].right, elem)
    ELSE st.heap[node].iter

lb(st, node, elem) ==
    IF node = NULL THEN end(st)
    ELSE IF elem < st.heap[node].val
    THEN LET left == lb(st, st.heap[node].left, elem)
         IN IF left = end(st) THEN st.heap[node].iter ELSE left
    ELSE IF st.heap[node].val < elem THEN lb(st, st.heap[node].right, elem)
    ELSE st.heap[node].iter

find(st, elem) == search(st, st.root, elem)

lower_bound(st, elem) == lb(st, st.root, elem)

RECURSIVE put(_, _, _)

\* Mutant of put: the return path skips balance.
put_nobalance(st, node, elem) ==
    IF node = NULL
    THEN LET next == lb(st, st.root, elem)
             l == IF next = end(st) THEN list_push_back(st, elem) ELSE list_insert(st, next, elem)
             a == Fresh(l.st.heap)
         IN [st |-> [l.st EXCEPT !.heap = l.st.heap @@ (a :> Node(elem, l.ret))], ret |-> a]
    ELSE IF elem < st.heap[node].val
    THEN LET p == put(st, st.heap[node].left, elem)
         IN [st |-> [p.st EXCEPT !.heap[node].left = p.ret], ret |-> node]
    ELSE LET p == put(st, st.heap[node].right, elem)
         IN [st |-> [p.st EXCEPT !.heap[node].right = p.ret], ret |-> node]

\* Mutant of put: the new list entry is always appended, whatever lb answers.
put_pushback(st, node, elem) ==
    IF node = NULL
    THEN LET l == list_push_back(st, elem)
             a == Fresh(l.st.heap)
         IN [st |-> [l.st EXCEPT !.heap = l.st.heap @@ (a :> Node(elem, l.ret))], ret |-> a]
    ELSE LET r == IF elem < st.heap[node].val
                  THEN LET p == put(st, st.heap[node].left, elem)
                       IN [p.st EXCEPT !.heap[node].left = p.ret]
                  ELSE LET p == put(st, st.heap[node].right, elem)
                       IN [p.st EXCEPT !.heap[node].right = p.ret]
         IN balance(r, node)

put(st, node, elem) ==
    IF node = NULL
    THEN LET next == lb(st, st.root, elem)
             l == IF next = end(st) THEN list_push_back(st, elem) ELSE list_insert(st, next, elem)
             a == Fresh(l.st.heap)
         IN [st |-> [l.st EXCEPT !.heap = l.st.heap @@ (a :> Node(elem, l.ret))], ret |-> a]
    ELSE LET r == IF elem < st.heap[node].val
                  THEN LET p == put(st, st.heap[node].left, elem)
                       IN [p.st EXCEPT !.heap[node].left = p.ret]
                  ELSE LET p == put(st, st.heap[node].right, elem)
                       IN [p.st EXCEPT !.heap[node].right = p.ret]
         IN balance(r, node)

RECURSIVE find_min(_, _)
find_min(st, node) ==
    IF st.heap[node].left # NULL THEN find_min(st, st.heap[node].left) ELSE node

RECURSIVE remove_min(_, _)
remove_min(st, node) ==
    IF st.heap[node].left = NULL
    THEN [st |-> st, ret |-> st.heap[node].right]
    ELSE LET r == remove_min(st, st.heap[node].left)
         IN balance([r.st EXCEPT !.heap[node].left = r.ret], node)

RECURSIVE del(_, _, _)

\* Mutant of del: the node's list entry is not erased.
del_keepentry(st, node, elem) ==
    IF node = NULL THEN [st |-> st, ret |-> NULL]
    ELSE IF elem < st.heap[node].val
    THEN LET d == del(st, st.heap[node].left, elem)
         IN balance([d.st EXCEPT !.heap[node].left = d.ret], node)
    ELSE IF st.heap[node].val < elem
    THEN LET d == del(st, st.heap[node].right, elem)
         IN balance([d.st EXCEPT !.heap[node].right = d.ret], node)
    ELSE LET left == st.heap[node].left
             right == st.heap[node].right
             s2 == delete_node(st, node)
         IN IF right = NULL
            THEN [st |-> s2, ret |-> left]
            ELSE LET mn == find_min(s2, right)
                     r == remove_min(s2, right)
                     s3 == [r.st EXCEPT !.heap[mn].right = r.ret]
                     s4 == [s3 EXCEPT !.heap[mn].left = left]
                 IN balance(s4, mn)

\* Mutant of del: a node without right child is replaced by its (null) right
\* child instead of its left child.
del_returnright(st, node, elem) ==
    IF node = NULL THEN [st |-> st, ret |-> NULL]
    ELSE IF elem < st.heap[node].val
    THEN LET d == del(st, st.heap[node].left, elem)
         IN balance([d.st EXCEPT !.heap[node].left = d.ret], node)
    ELSE IF st.heap[node].val < elem
    THEN LET d == del(st, st.heap[node].right, elem)
         IN balance([d.st EXCEPT !.heap[node].right = d.ret], node)
    ELSE LET left == st.heap[node].left
             right == st.heap[node].right
             s1 == list_erase(st, st.heap[node].iter)
             s2 == delete_node(s1, node)
         IN IF right = NULL
            THEN [st |-> s2, ret |-> right]
            ELSE LET mn == find_min(s2, right)
                     r == remove_min(s2, right)
                     s3 == [r.st EXCEPT !.heap[mn].right = r.ret]
                     s4 == [s3 EXCEPT !.heap[mn].left = left]
                 IN balance(s4, mn)

del(st, node, elem) ==
    IF node = NULL THEN [st |-> st, ret |-> NULL]
    ELSE IF elem < st.heap[node].val
    THEN LET d == del(st, st.heap[node].left, elem)
         IN balance([d.st EXCEPT !.heap[node].left = d.ret], node)
    ELSE IF st.heap[node].val < elem
    THEN LET d == del(st, st.heap[node].right, elem)
         IN balance([d.st EXCEPT !.heap[node].right = d.ret], node)
    ELSE LET left == st.heap[node].left
             right == st.heap[node].right
             s1 == list_erase(st, st.heap[node].iter)
             s2 == delete_node(s1, node)
         IN IF right = NULL
            THEN [st |-> s2, ret |-> left]
            ELSE LET mn == find_min(s2, right)
                     r == remove_min(s2, right)
                     s3 == [r.st EXCEPT !.heap[mn].right = r.ret]
                     s4 == [s3 EXCEPT !.heap[mn].left = left]
                 IN balance(s4, mn)

\* Mutant of insert: the existence probe is missing.
insert_noprobe(st, elem) ==
    LET p == put(st, st.root, elem)
    IN [p.st EXCEPT !.root = p.ret, !.sz = p.st.sz + 1]

\* Mutant of insert: the count is not incremented.
insert_nocount(st, elem) ==
    IF find(st, elem) = end(st)
    THEN LET p == put(st, st.root, elem)
         IN [p.st EXCEPT !.root = p.ret]
    ELSE st

insert(st, elem) ==
    IF find(st, elem) = end(st)
    THEN LET p == put(st, st.root, elem)
         IN [p.st EXCEPT !.root = p.ret, !.sz = p.st.sz + 1]
    ELSE st

\* Mutant of erase: the existence probe is missing.
erase_noprobe(st, elem) ==
    LET d == del(st, st.root, elem)
    IN [d.st EXCEPT !.root = d.ret, !.sz = d.st.sz - 1]

\* Mutant of erase: the count is not decremented.
erase_nocount(st, elem) ==
    IF find(st, elem) # end(st)
    THEN LET d == del(st, st.root, elem)
         IN [d.st EXCEPT !.root = d.ret]
    ELSE st

\* sz is a size_t; the model keeps its mathematical value, so that a wrap of
\* sz-- below zero shows as a negative sz.
erase(st, elem) ==
    IF find(st, elem) # end(st)
    THEN LET d == del(st, st.root, elem)
         IN [d.st EXCEPT !.root = d.ret, !.sz = d.st.sz - 1]
    ELSE st

\* clear(node): frees the subtree at node, children first.
RECURSIVE clear(_, _)

\* Mutant of clear: the right subtree is not visited.
clear_leftonly(st, node) ==
    IF node = NULL THEN st
    ELSE delete_node(clear(st, st.heap[node].left), node)

clear(st, node) ==
    IF node = NULL THEN st
    ELSE LET s1 == clear(st, st.heap[node].left)
             s2 == clear(s1, st.heap[node].right)
         IN delete_node(s2, node)

\* items.clear(): erases every entry, first to last.
RECURSIVE list_clear(_)
list_clear(st) ==
    IF Len(st.items) = 0 THEN st ELSE list_clear(list_erase(st, st.items[1]))

\* for (auto &elem : other.items) insert(elem), from the i-th entry on;
\* otherItems is the other Set's list, read entry by entry as the loop runs.
RECURSIVE insert_each(_, _, _)
insert_each(st, otherItems, i) ==
    IF i > Len(otherItems) THEN st
    ELSE insert_each(insert(st, st.cells[otherItems[i]]), otherItems, i + 1)

\* Set(): root(nullptr), sz(0), items(), in the memory of st.
default_construct(st) == [st EXCEPT !.root = NULL, !.sz = 0, !.items = <<>>]

\* Set(first, last) and Set(init_list): insert of every element in turn.
RECURSIVE insert_range(_, _, _)
insert_range(st, elems, i) ==
    IF i > Len(elems) THEN st
    ELSE insert_range(insert(st, elems[i]), elems, i + 1)

\* The loop of insert_range where an element equal to the one before it is
\* inserted without the probe of insert.
RECURSIVE range_noprobe(_, _, _)
range_noprobe(st, elems, i) ==
    IF i > Len(elems) THEN st
    ELSE range_noprobe(IF i > 1 /\ elems[i] = elems[i - 1]
                       THEN insert_noprobe(st, elems[i])
                       ELSE insert(st, elems[i]), elems, i + 1)

\* Mutant of range_construct: repeated elements are not probed for.
range_construct_noprobe(st, elems) == range_noprobe(default_construct(st), elems, 1)

range_construct(st, elems) == insert_range(default_construct(st), elems, 1)

\* Mutant of copy_construct: the members are copied as they are (the copy the
\* compiler would generate for root and sz, and the same list).
copy_construct_shallow(st, other, same) ==
    [st EXCEPT !.root = other.root, !.sz = other.sz, !.items = other.items]

\* Set(const Set &other); same stands for this == &other.
copy_construct(st, other, same) ==
    IF ~same THEN insert_each(default_construct(st), other.items, 1)
    ELSE default_construct(st)

\* Mutant of assign: the old tree and list are not cleared.
assign_noclear(st, other, same) ==
    IF ~same THEN insert_each(st, other.items, 1) ELSE st

\* operator=(const Set &other); same stands for this == &other.
assign(st, other, same) ==
    IF ~same
    THEN LET s1 == clear(st, st.root)
             s2 == [s1 EXCEPT !.root = NULL]
             s3 == [s2 EXCEPT !.sz = 0]
             s4 == list_clear(s3)
         IN insert_each(s4, other.items, 1)
    ELSE st

\* ~Set()
destroy(st) ==
    LET s1 == clear(st, st.root)
        s2 == [s1 EXCEPT !.root = NULL]
        s3 == [s2 EXCEPT !.sz = 0]
    IN list_clear(s3)

Install(st) ==
    /\ root' = st.root
    /\ sz' = st.sz
    /\ items' = st.items
    /\ heap' = st.heap
    /\ cells' = st.cells

\* Forward iteration begin() .. end(): the values of the list entries in order.
Iterate(st) == [i \in 1 .. Len(st.items) |-> st.cells[st.items[i]]]

\* What a caller can observe of a Set: its iteration sequence and its size.
Observe(st) == [seq |-> Iterate(st), sz |-> size(st)]

NoObs == [seq |-> <<>>, sz |-> 0]

\* The tree node holding elem, or NULL (the path search takes).
RECURSIVE locate(_, _, _)
locate(st, node, elem) ==
    IF node = NULL THEN NULL
    ELSE IF elem < st.heap[node].val THEN locate(st, st.heap[node].left, elem)
    ELSE IF st.heap[node].val < elem THEN locate(st, st.heap[node].right, elem)
    ELSE node

\* Number of children of the node holding elem (0 when there is none).
Kids(st, elem) ==
    LET n == locate(st, st.root, elem)
    IN IF n = NULL THEN 0
       ELSE (IF st.heap[n].left # NULL THEN 1 ELSE 0) + (IF st.heap[n].right # NULL THEN 1 ELSE 0)

\* History record of the call that produced the current state:
\*   op, arg   the call;
\*   found     whether find(arg) # end() held when it was made;
\*   kids      children of the node holding arg when it was made;
\*   atRoot    whether that node was the root;
\*   pre       what was observable before the call;
\*   undoes    the call is erase(arg) and the call before it was insert(arg);
\*   fresh     ... and that insert found arg absent;
\*   base      ... and what was observable before that insert;
\*   freed     per delete expression of r: whether the node was allocated, and
\*             its value;
\*   unlinked  per list entry erased by r: whether it was in the list, and its
\*             value.
Record(name, e, r) ==
    [op |-> name, arg |-> e,
     found |-> find(This, e) # end(This),
     kids |-> Kids(This, e),
     atRoot |-> (root # NULL /\ locate(This, root, e) = root),
     pre |-> Observe(This),
     undoes |-> (name = "erase" /\ last.op = "insert" /\ last.arg = e),
     fresh |-> (name = "erase" /\ last.op = "insert" /\ last.arg = e /\ ~last.found),
     base |-> IF name = "erase" /\ last.op = "insert" /\ last.arg = e THEN last.pre ELSE NoObs,
     freed |-> r.freed,
     unlinked |-> r.unlinked]

\* History record of the specifications SpecTree and SpecCopy:
\*   op, target, arg  the call, the Set ("A" or "B") it was made on, its argument;
\*   found     whether find(arg) # end() held on the target when it was made;
\*   kids      children of the node holding arg when it was made;
\*   bal       per call of balance it made: whether both children were
\*             AVL-balanced with true heights (pre), the balance factor
\*             computed, whether it rotated, and whether the subtree returned
\*             is AVL-balanced with true heights (post);
\*   frame     the Set the call was not made on, as it was before the call;
\*   differed  the target held other elements than the source before the call;
\*   calls     the number of calls made so far (SpecCopy).
NoCopy ==
    [op |-> "none", target |-> "A", arg |-> 0, found |-> FALSE, kids |-> 0,
     bal |-> <<>>, frame |-> <<>>, differed |-> FALSE, calls |-> 0]

BalanceLog(r) ==
    [i \in 1 .. Len(r.bal) |->
        [pre |-> BalancePre(r.bal[i]),
         factor |-> BalanceFactor(r.bal[i]),
         rotated |-> Rotated(r.bal[i]),
         post |-> BalancePost(r.bal[i])]]

\* SpecTree keeps of a call on A the shape of what it did, not its argument.
TreeTrace(name, e, r) ==
    [NoCopy EXCEPT !.op = name,
                   !.found = find(This, e) # end(This),
                   !.kids = Kids(This, e),
                   !.bal = BalanceLog(r)]

\* A default-constructed, B not constructed, no call made.
Constructed ==
    /\ root = NULL
    /\ sz = 0
    /\ items = <<>>
    /\ heap = <<>>
    /\ cells = <<>>
    /\ last = [op |-> "none", arg |-> 0, found |-> FALSE, kids |-> 0, atRoot |-> FALSE,
               pre |-> NoObs, undoes |-> FALSE, fresh |-> FALSE, base |-> NoObs,
               freed |-> <<>>, unlinked |-> <<>>]
    /\ abs = {}
    /\ asc = 0
    /\ setB = NoSet

Init ==
    /\ Constructed
    /\ cp = NoCopy

\* abs: the abstract set of the call history (inserted and not erased since).
\* asc: k when the history is exactly insert(1), ..., insert(k); -1 otherwise.
Insert(e) ==
    /\ \E r \in {insert(This, e)} : Install(r) /\ last' = Record("insert", e, r)
    /\ abs' = abs \cup {e}
    /\ asc' = IF asc >= 0 /\ e = asc + 1 THEN asc + 1 ELSE -1
    /\ UNCHANGED <<setB, cp>>

Erase(e) ==
    /\ \E r \in {erase(This, e)} : Install(r) /\ last' = Record("erase", e, r)
    /\ abs' = abs \ {e}
    /\ asc' = -1
    /\ UNCHANGED <<setB, cp>>

\* A = Set(): assignment from a default-constructed temporary.
AssignEmpty ==
    /\ \E r \in {assign(This, Temp, FALSE)} : Install(r) /\ last' = Record("assign", 0, r)
    /\ abs' = {}
    /\ asc' = -1
    /\ UNCHANGED <<setB, cp>>

Next ==
    \/ \E e \in Values : Insert(e)
    \/ \E e \in Values : Erase(e)
    \/ AssignEmpty

Spec == Init /\ [][Next]_vars

\* The same calls, with the trace of what each did to the tree in cp.
TreeInsert(e) ==
    /\ \E r \in {insert(This, e)} : Install(r) /\ cp' = TreeTrace("insert", e, r)
    /\ UNCHANGED <<last, abs, asc, setB>>

TreeErase(e) ==
    /\ \E r \in {erase(This, e)} : Install(r) /\ cp' = TreeTrace("erase", e, r)
    /\ UNCHANGED <<last, abs, asc, setB>>

TreeAssignEmpty ==
    /\ \E r \in {assign(This, Temp, FALSE)} : Install(r) /\ cp' = TreeTrace("assign", 0, r)
    /\ UNCHANGED <<last, abs, asc, setB>>

TreeNext ==
    \/ \E e \in Values : TreeInsert(e)
    \/ \E e \in Values : TreeErase(e)
    \/ TreeAssignEmpty

SpecTree == Init /\ [][TreeNext]_vars

----
\* Two Sets A and B in one memory: copy construction, assignment both ways,
\* self-assignment, destruction of B, and insert/erase on either.

\* Bound: in SpecCopy and SpecConstruct elements are drawn from 1..MaxCopyVal.
MaxCopyVal == 3

CopyVals == 1 .. MaxCopyVal

\* Bound: a behaviour of SpecCopy makes at most MaxCopyCalls calls.
MaxCopyCalls == 7

MayCall == cp.calls < MaxCopyCalls

InstallB(st) ==
    /\ setB' = [live |-> TRUE, root |-> st.root, sz |-> st.sz, items |-> st.items]
    /\ heap' = st.heap
    /\ cells' = st.cells
    /\ UNCHANGED <<root, sz, items>>

InstallA(st) ==
    /\ Install(st)
    /\ UNCHANGED setB

\* Addresses of the nodes of the subtree at node in st.
RECURSIVE SubtreeIn(_, _)
SubtreeIn(st, node) ==
    IF node = NULL THEN {}
    ELSE {node} \cup SubtreeIn(st, st.heap[node].left) \cup SubtreeIn(st, st.heap[node].right)

\* All of a Set: its members, its nodes and its list entries.
Snapshot(st) ==
    [root |-> st.root, sz |-> st.sz, items |-> st.items,
     nodes |-> [n \in SubtreeIn(st, st.root) |-> st.heap[n]],
     entries |-> [c \in {st.items[i] : i \in 1 .. Len(st.items)} |-> st.cells[c]]]

\* st holds an element that other does not hold.
HoldsOther(st, other) ==
    \E i \in 1 .. Len(st.items) :
        \A j \in 1 .. Len(other.items) :
            st.cells[st.items[i]] # other.cells[other.items[j]]

CopyTrace(name, t, e, untouched, differed) ==
    [NoCopy EXCEPT !.op = name, !.target = t,
                   !.frame = Snapshot(untouched), !.differed = differed,
                   !.calls = cp.calls + 1]

CopyInsertA(e) ==
    /\ MayCall
    /\ \E r \in {insert(This, e)} : InstallA(r)
    /\ cp' = CopyTrace("insert", "A", e, That, FALSE)
    /\ UNCHANGED <<last, abs, asc>>

CopyEraseA(e) ==
    /\ MayCall
    /\ \E r \in {erase(This, e)} : InstallA(r)
    /\ cp' = CopyTrace("erase", "A", e, That, FALSE)
    /\ UNCHANGED <<last, abs, asc>>

CopyInsertB(e) ==
    /\ MayCall
    /\ setB.live
    /\ \E r \in {insert(That, e)} : InstallB(r)
    /\ cp' = CopyTrace("insert", "B", e, This, FALSE)
    /\ UNCHANGED <<last, abs, asc>>

CopyEraseB(e) ==
    /\ MayCall
    /\ setB.live
    /\ \E r \in {erase(That, e)} : InstallB(r)
    /\ cp' = CopyTrace("erase", "B", e, This, FALSE)
    /\ UNCHANGED <<last, abs, asc>>

\* Set B(A)
CopyConstructB ==
    /\ MayCall
    /\ ~setB.live
    /\ \E r \in {copy_construct(That, This, FALSE)} : InstallB(r)
    /\ cp' = CopyTrace("copy", "B", 0, This, FALSE)
    /\ UNCHANGED <<last, abs, asc>>

\* B = A
AssignBA ==
    /\ MayCall
    /\ setB.live
    /\ \E r \in {assign(That, This, FALSE)} : InstallB(r)
    /\ cp' = CopyTrace("assign", "B", 0, This, HoldsOther(That, This))
    /\ UNCHANGED <<last, abs, asc>>

\* A = B
AssignAB ==
    /\ MayCall
    /\ setB.live
    /\ \E r \in {assign(This, That, FALSE)} : InstallA(r)
    /\ cp' = CopyTrace("assign", "A", 0, That, HoldsOther(This, That))
    /\ UNCHANGED <<last, abs, asc>>

\* A = A
SelfAssignA ==
    /\ MayCall
    /\ \E r \in {assign(This, This, TRUE)} : InstallA(r)
    /\ cp' = CopyTrace("selfassign", "A", 0, This, FALSE)
    /\ UNCHANGED <<last, abs, asc>>

\* B goes out of scope.
DestroyB ==
    /\ MayCall
    /\ setB.live
    /\ \E r \in {destroy(That)} :
           /\ setB' = NoSet
           /\ heap' = r.heap
           /\ cells' = r.cells
           /\ r.root = NULL /\ r.sz = 0 /\ r.items = <<>>
    /\ cp' = CopyTrace("destroy", "B", 0, This, FALSE)
    /\ UNCHANGED <<root, sz, items, last, abs, asc>>

CopyNext ==
    \/ \E e \in CopyVals : CopyInsertA(e)
    \/ \E e \in CopyVals : CopyEraseA(e)
    \/ \E e \in CopyVals : CopyInsertB(e)
    \/ \E e \in CopyVals : CopyEraseB(e)
    \/ CopyConstructB
    \/ AssignBA
    \/ AssignAB
    \/ SelfAssignA
    \/ DestroyB

SpecCopy == Init /\ [][CopyNext]_vars

----
\* Construction from a range or an initializer list: the input is drawn at
\* the start and the constructor runs once.

\* Bound: an input range holds at most MaxListLen elements of CopyVals.
MaxListLen == 5

InputLists == UNION {[1 .. n -> CopyVals] : n \in 0 .. MaxListLen}

ConstructInit ==
    /\ Constructed
    /\ \E elems \in InputLists : cp = [NoCopy EXCEPT !.op = "input", !.arg = elems]

\* Set(first, last) and Set(init_list)
RangeConstruct ==
    /\ cp.op = "input"
    /\ \E r \in {range_construct(This, cp.arg)} : Install(r)
    /\ cp' = [cp EXCEPT !.op = "construct"]
    /\ UNCHANGED <<last, abs, asc, setB>>

ConstructNext == RangeConstruct

SpecConstruct == ConstructInit /\ [][ConstructNext]_vars

----
\* Vocabulary of the properties.

Range(seq) == {seq[i] : i \in 1 .. Len(seq)}

Ascending(seq) == \A i \in 1 .. Len(seq) - 1 : seq[i] < seq[i + 1]

\* seq with e placed at its sorted position.
WithElem(seq, e) ==
    SelectSeq(seq, LAMBDA x : x < e) \o <<e>> \o SelectSeq(seq, LAMBDA x : e < x)

\* seq with e deleted.
WithoutElem(seq, e) == SelectSeq(seq, LAMBDA x : x # e)

\* Addresses of the nodes of the subtree at node.
RECURSIVE Subtree(_)
Subtree(node) ==
    IF node = NULL THEN {}
    ELSE {node} \cup Subtree(heap[node].left) \cup Subtree(heap[node].right)

\* True height of the subtree at node, from the links alone.
RECURSIVE TrueHeight(_)
TrueHeight(node) ==
    IF node = NULL THEN 0
    ELSE 1 + Max(TrueHeight(heap[node].left), TrueHeight(heap[node].right))

Abs(x) == IF x < 0 THEN -x ELSE x

----
\* C1: after any sequence of insert and erase calls, iterating from begin()
\* to end() yields exactly the stored elements, strictly ascending, hence
\* without duplicates.
C1_OrderInvariant ==
    /\ Ascending(Iterate(This))
    /\ Range(Iterate(This)) = abs

\* An element was placed between two others and a later erase was made.
C1_Witness ==
    /\ last.op = "erase"
    /\ last.found
    /\ Len(items) >= 3
    /\ \E e \in Values : e \notin abs /\ (\E x, y \in abs : x < e /\ e < y)

\* C2: find(e) differs from end() exactly when e was inserted and not erased
\* since; the position it then returns dereferences to e.
C2_Membership ==
    \A e \in Values :
        /\ (find(This, e) # end(This)) <=> (e \in abs)
        /\ find(This, e) # end(This) =>
               (find(This, e) \in DOMAIN cells /\ cells[find(This, e)] = e)

\* find answers a hit below the root and a miss, after an erase.
C2_Witness ==
    /\ last.op = "erase"
    /\ last.found
    /\ \E e \in Values : find(This, e) # end(This) /\ locate(This, root, e) # root
    /\ \E e \in Values : find(This, e) = end(This)

\* C3: lower_bound(e) is the position of the smallest stored element that is
\* not less than e, and is end() exactly when no stored element is >= e.
C3_LowerBound ==
    \A e \in Values :
        LET it == lower_bound(This, e)
            ge == {x \in Range(Iterate(This)) : ~(x < e)}
        IN /\ (it = end(This)) <=> (ge = {})
           /\ it # end(This) =>
                  /\ it \in Range(items)
                  /\ cells[it] \in ge
                  /\ \A x \in ge : ~(x < cells[it])

\* lower_bound answers a strictly greater element for one query, an equal
\* element for another, and end() for a third.
C3_Witness ==
    /\ \E e \in Values : lower_bound(This, e) # end(This) /\ e < cells[lower_bound(This, e)]
    /\ \E e \in Values : lower_bound(This, e) # end(This) /\ cells[lower_bound(This, e)] = e
    /\ \E e \in Values : lower_bound(This, e) = end(This)
    /\ sz >= 3

\* C4: insert(e) on a Set holding no element equal to e makes e present,
\* adds exactly one to size, and the iteration sequence becomes the old one
\* with e at its sorted position (every old element still found).
C4_InsertAbsent ==
    (last.op = "insert" /\ ~last.found) =>
        /\ find(This, last.arg) # end(This)
        /\ sz = last.pre.sz + 1
        /\ Iterate(This) = WithElem(last.pre.seq, last.arg)
        /\ \A x \in Range(last.pre.seq) : find(This, x) # end(This)

\* A fresh element went strictly between two stored ones.
C4_Witness ==
    /\ last.op = "insert"
    /\ ~last.found
    /\ \E x, y \in Range(last.pre.seq) : x < last.arg /\ last.arg < y

\* C5: insert(e) on a Set that already holds e changes neither size nor the
\* iteration sequence nor the tree.
C5_InsertIdempotent ==
    [][\A e \in Values :
          (last'.op = "insert" /\ last'.arg = e /\ find(This, e) # end(This))
              => UNCHANGED <<root, sz, items, heap, cells>>]_vars

\* insert(e) was called twice in a row.
C5_Witness ==
    /\ last.op = "insert"
    /\ last.found
    /\ last.arg \in Range(last.pre.seq)
    /\ sz >= 2

\* C6: erase(e) on a Set holding e makes e absent, takes exactly one from
\* size, and the iteration sequence becomes the old one with exactly e
\* deleted (every other element still found), whatever the number of
\* children of the erased node.
C6_ErasePresent ==
    (last.op = "erase" /\ last.found) =>
        /\ find(This, last.arg) = end(This)
        /\ sz = last.pre.sz - 1
        /\ Iterate(This) = WithoutElem(last.pre.seq, last.arg)
        /\ Len(Iterate(This)) = Len(last.pre.seq) - 1
        /\ \A x \in Range(last.pre.seq) \ {last.arg} : find(This, x) # end(This)

\* The erased node was the root and had two children.
C6_Witness ==
    /\ last.op = "erase"
    /\ last.found
    /\ last.kids = 2
    /\ last.atRoot
    /\ sz >= 3

\* C7: erase(e) on a Set holding no element equal to e leaves size, the
\* iteration sequence and the tree unchanged.
C7_EraseAbsent ==
    [][\A e \in Values :
          (last'.op = "erase" /\ last'.arg = e /\ find(This, e) = end(This))
              => UNCHANGED <<root, sz, items, heap, cells>>]_vars

\* erase of an absent element was called on a Set of at least two elements.
C7_Witness ==
    /\ last.op = "erase"
    /\ ~last.found
    /\ sz >= 2

\* C8 as stated: insert(e) then erase(e) gives back the size and iteration
\* sequence of before the insert, for every e and every prior state.
C8_InverseAsStated ==
    (last.op = "erase" /\ last.undoes) =>
        /\ Iterate(This) = last.base.seq
        /\ sz = last.base.sz

\* C8 amended: insert(e) then erase(e) gives back the size and iteration
\* sequence of before the insert, for every e the prior state did not hold.
C8_Inverse ==
    (last.op = "erase" /\ last.undoes /\ last.fresh) =>
        /\ Iterate(This) = last.base.seq
        /\ sz = last.base.sz

\* A fresh insert into a Set of at least three elements was undone.
C8_Witness ==
    /\ last.op = "erase"
    /\ last.undoes
    /\ last.fresh
    /\ last.found
    /\ last.base.sz >= 3

\* C9: after every insert or erase each node's subtrees differ in true height
\* by at most one; inserting 1,2,3,4,5 in this order gives height at most 3.
C9_Balance ==
    /\ \A n \in Subtree(root) :
           Abs(TrueHeight(heap[n].left) - TrueHeight(heap[n].right)) <= 1
    /\ asc = 5 => TrueHeight(root) <= 3

\* 1,2,3,4,5 were inserted in ascending order.
C9_Witness ==
    /\ asc = 5
    /\ sz = 5
    /\ TrueHeight(root) = 3

\* C10: size() is the number of distinct stored elements, the length of the
\* mirror sequence and the number of tree nodes; empty() holds exactly when
\* size() is 0, and then begin() = end() and root is null; the counter never
\* goes below zero.
C10_Size ==
    /\ size(This) = Cardinality(Range(Iterate(This)))
    /\ size(This) = Len(items)
    /\ size(This) = Cardinality(Subtree(root))
    /\ size(This) = Cardinality(abs)
    /\ size(This) >= 0
    /\ empty(This) <=> (size(This) = 0)
    /\ empty(This) => (begin(This) = end(This) /\ root = NULL)
    /\ ~empty(This) => (begin(This) # end(This) /\ root # NULL)

\* The Set was emptied again by an erase.
C10_Witness ==
    /\ last.op = "erase"
    /\ last.found
    /\ last.pre.sz = 1
    /\ empty(This)

----
\* In-order traversal of the subtree at node: the values, and the list
\* entries the nodes hold.
----
\* Copies (SpecCopy).

\* The nodes of the subtree at node in st, in order.
RECURSIVE InOrderNodes(_, _)
InOrderNodes(st, node) ==
    IF node = NULL THEN <<>>
    ELSE InOrderNodes(st, st.heap[node].left) \o <<node>>
             \o InOrderNodes(st, st.heap[node].right)

\* Every invariant of a Set, for the Set st: ascending iteration, the size
\* counter, the search tree mirroring the list entry by entry, stored heights
\* and balance.
WellFormed(st) ==
    LET nodes == InOrderNodes(st, st.root)
    IN  /\ Ascending(Iterate(st))
        /\ st.sz = Len(st.items)
        /\ Len(nodes) = Len(st.items)
        /\ Cardinality(Range(nodes)) = Len(nodes)
        /\ Cardinality(Range(st.items)) = Len(st.items)
        /\ [i \in 1 .. Len(nodes) |-> st.heap[nodes[i]].iter] = st.items
        /\ [i \in 1 .. Len(nodes) |-> st.heap[nodes[i]].val] = Iterate(st)
        /\ AVLIn(st, st.root)

\* C11: the Sets A and B share no node and no list entry, and an insert or
\* an erase on one of them leaves the other as it was before the call: the
\* same size, the same list of entries with the same values, the same tree
\* node for node.
C11_CopyIndependence ==
    /\ setB.live =>
           /\ SubtreeIn(This, root) \cap SubtreeIn(That, setB.root) = {}
           /\ Range(items) \cap Range(setB.items) = {}
    /\ cp.op \in {"insert", "erase"} /\ cp.target = "B" =>
           Snapshot(This) = cp.frame
    /\ cp.op \in {"insert", "erase"} /\ cp.target = "A" /\ setB.live =>
           Snapshot(That) = cp.frame

\* B was made from a non-empty A, and an erase on B removed an element that A
\* still holds.
C11_Witness ==
    /\ setB.live
    /\ cp.op = "erase"
    /\ cp.target = "B"
    /\ sz >= 2
    /\ setB.sz >= 1
    /\ setB.sz < sz
    /\ Range(Iterate(That)) \subseteq Range(Iterate(This))
    /\ Snapshot(This) = cp.frame

\* C12: after B is copy-constructed from A or assigned from A, B has the size
\* and the iteration sequence of A (so nothing else of B's earlier contents is
\* left), B satisfies every invariant and A is as it was before the call; the
\* same with A assigned from B; and assigning A to itself leaves A as it was.
C12_CopyEquals ==
    /\ cp.op \in {"copy", "assign"} /\ cp.target = "B" =>
           /\ setB.sz = sz
           /\ Iterate(That) = Iterate(This)
           /\ WellFormed(That)
           /\ Snapshot(This) = cp.frame
    /\ cp.op = "assign" /\ cp.target = "A" =>
           /\ sz = setB.sz
           /\ Iterate(This) = Iterate(That)
           /\ WellFormed(This)
           /\ Snapshot(That) = cp.frame
    /\ cp.op = "selfassign" =>
           /\ Snapshot(This) = cp.frame
           /\ WellFormed(This)

\* B = A was called with B holding elements that A does not hold, and A
\* holding at least two elements.
C12_Witness ==
    /\ cp.op = "assign"
    /\ cp.target = "B"
    /\ cp.differed
    /\ sz >= 2
    /\ Iterate(That) = Iterate(This)

----
\* Construction from a range (SpecConstruct).

\* C13: a Set constructed from a range or an initializer list has as its
\* size the number of distinct elements of the input, and iterates exactly
\* over those distinct elements in ascending order.
C13_RangeConstruct ==
    cp.op = "construct" =>
        /\ size(This) = Cardinality(Range(cp.arg))
        /\ Len(Iterate(This)) = Cardinality(Range(cp.arg))
        /\ Range(Iterate(This)) = Range(cp.arg)
        /\ Ascending(Iterate(This))

\* The Set was constructed from {2, 2, 3, 1, 1}.
C13_Witness ==
    /\ cp.op = "construct"
    /\ cp.arg = <<2, 2, 3, 1, 1>>
    /\ size(This) = 3
    /\ Iterate(This) = <<1, 2, 3>>

----
\* The structure under the interface (SpecTree).

RECURSIVE InOrder(_)
InOrder(node) ==
    IF node = NULL THEN <<>>
    ELSE InOrder(heap[node].left) \o <<heap[node].val>> \o InOrder(heap[node].right)

RECURSIVE InOrderIters(_)
InOrderIters(node) ==
    IF node = NULL THEN <<>>
    ELSE InOrderIters(heap[node].left) \o <<heap[node].iter>> \o InOrderIters(heap[node].right)

\* Values of the nodes of the subtree at node.
SubtreeVals(node) == {heap[n].val : n \in Subtree(node)}

\* C14: there is exactly one list entry per tree node: distinct nodes hold
\* distinct entries, every entry of the list is held by a node, and each
\* node's iter is a live entry of the list whose value is the node's val.
C14_NodeEntryBijection ==
    /\ \A n \in Subtree(root) :
           /\ heap[n].iter \in Range(items)
           /\ heap[n].iter \in DOMAIN cells
           /\ cells[heap[n].iter] = heap[n].val
    /\ \A n, m \in Subtree(root) : heap[n].iter = heap[m].iter => n = m
    /\ \A it \in Range(items) : \E n \in Subtree(root) : heap[n].iter = it
    /\ Cardinality(Subtree(root)) = Len(items)
    /\ Cardinality(Range(items)) = Len(items)

\* An erase replaced a two-child node by the minimum of its right subtree
\* and rotated.
C14_Witness ==
    /\ cp.op = "erase"
    /\ cp.found
    /\ cp.kids = 2
    /\ (\E i \in 1 .. Len(cp.bal) : cp.bal[i].rotated)
    /\ sz >= 3

\* C15: the tree is a binary search tree (left subtree values below the
\* node's, right subtree values above) and its in-order traversal is the
\* mirror sequence, element for element.
C15_SearchTreeMirror ==
    /\ \A n \in Subtree(root) :
           /\ \A v \in SubtreeVals(heap[n].left) : v < heap[n].val
           /\ \A v \in SubtreeVals(heap[n].right) : heap[n].val < v
    /\ InOrder(root) = Iterate(This)
    /\ InOrderIters(root) = items

\* An insert that made a rotation produced a five-node tree of height 3.
C15_Witness ==
    /\ cp.op = "insert"
    /\ ~cp.found
    /\ (\E i \in 1 .. Len(cp.bal) : cp.bal[i].rotated)
    /\ sz = 5
    /\ TrueHeight(root) = 3

\* C16: every node's stored height h is 1 + max of its children's heights,
\* an empty subtree counting 0; h is the true height and at least 1.
C16_StoredHeight ==
    \A n \in Subtree(root) :
        /\ heap[n].h = 1 + Max(height(This, heap[n].left), height(This, heap[n].right))
        /\ heap[n].h = TrueHeight(n)
        /\ heap[n].h >= 1

\* An erase that went through remove_min and a rotation left a tree of
\* height 3.
C16_Witness ==
    /\ cp.op = "erase"
    /\ cp.found
    /\ cp.kids = 2
    /\ Len(cp.bal) >= 2
    /\ root # NULL
    /\ heap[root].h = 3

\* C17: whenever balance(node) is invoked during an insert or erase, both
\* children of node are AVL-balanced with true stored heights and the balance
\* factor it computes lies in -2 .. 2; the subtree it returns is AVL-balanced
\* with true stored heights.
C17_BalanceCalls ==
    \A i \in 1 .. Len(cp.bal) :
        /\ cp.bal[i].pre
        /\ cp.bal[i].factor \in -2 .. 2
        /\ cp.bal[i].post

\* An insert invoked balance at least three times, and a call below the
\* root found a factor of 2 or -2 and rotated.
C17_Witness ==
    /\ cp.op = "insert"
    /\ ~cp.found
    /\ Len(cp.bal) >= 3
    /\ \E i \in 1 .. Len(cp.bal) - 1 : cp.bal[i].rotated /\ cp.bal[i].factor \in {-2, 2}

\* C18: the allocated nodes are exactly the nodes reachable from the root,
\* each reachable once, and the live list entries are exactly those of the
\* list; no delete expression and no list erase ever hits a node or entry
\* that is not live; insert frees nothing; erase of a present element frees
\* exactly its node and, in the same call, exactly its entry (so the promoted
\* minimum is neither freed nor duplicated); erase of an absent element frees
\* nothing; the clear of an assignment frees every node and entry once.
C18_Resources ==
    /\ DOMAIN heap = Subtree(root)
    /\ DOMAIN cells = Range(items)
    /\ Len(InOrder(root)) = Cardinality(Subtree(root))
    /\ \A i \in 1 .. Len(last.freed) : last.freed[i].live
    /\ \A i \in 1 .. Len(last.unlinked) : last.unlinked[i].live
    /\ last.op = "insert" => (last.freed = <<>> /\ last.unlinked = <<>>)
    /\ (last.op = "erase" /\ ~last.found) => (last.freed = <<>> /\ last.unlinked = <<>>)
    /\ (last.op = "erase" /\ last.found) =>
           /\ last.freed = <<[live |-> TRUE, val |-> last.arg]>>
           /\ last.unlinked = <<[live |-> TRUE, val |-> last.arg]>>
    /\ last.op = "assign" =>
           /\ Len(last.freed) = last.pre.sz
           /\ {last.freed[i].val : i \in 1 .. Len(last.freed)} = Range(last.pre.seq)
           /\ [i \in 1 .. Len(last.unlinked) |-> last.unlinked[i].val] = last.pre.seq
           /\ DOMAIN heap = {}
           /\ DOMAIN cells = {}

\* An erase freed a node with two children, whose place the minimum of its
\* right subtree took.
C18_Witness ==
    /\ last.op = "erase"
    /\ last.found
    /\ last.kids = 2
    /\ last.freed = <<[live |-> TRUE, val |-> last.arg]>>
    /\ Cardinality(DOMAIN heap) >= 3

====
